---- MODULE Spec2Model ----
(***************************************************************************)
(* One evaluation of objective_function<Type>::operator() of               *)
(* src/data/spatial_gompertz.cpp (the spatial Gompertz joint negative      *)
(* log-likelihood), as a state machine: the data and parameters are fixed  *)
(* by Init, every block of the function body is one action.                *)
(*                                                                         *)
(* Numbers.  A value of Type is an exact rational <<n, d>>, d > 0, in      *)
(* lowest terms.  exp is applied to integers only and is modelled by the   *)
(* positive homomorphism k |-> 2^k (exp(0) = 1, exp(a+b) = exp(a)exp(b)).  *)
(* Values of the library densities (GMRF, dpois, dnorm) are transcendental *)
(* and are kept as uninterpreted terms; a likelihood value is the          *)
(* left-to-right sum of a sequence of terms, <<>> being 0.                 *)
(* R's NA_real_ is the NaN <<1954, 0>>; an ordinary NaN is <<0, 0>>.       *)
(* A cell of a freshly constructed vector<Type>(n) holds Uninit until it   *)
(* is assigned; reading it, or reading outside an array, yields any value  *)
(* of Garbage, or stops the evaluation when the build checks bounds.       *)
(* n_factorize counts the GMRF(Q) objects constructed: the constructor of  *)
(* density::GMRF_t factorizes the precision matrix it is given.            *)
(* Range, SigmaE, SigmaO (lines 87-90) and the REPORT calls feed nothing   *)
(* back into the objective and are not part of the state.                  *)
(***************************************************************************)
EXTENDS Integers, Sequences, FiniteSets, TLC

\* ------------------------------------------------------------ bounds
\* the largest number of observations n_i
MaxNi == 3

\* ------------------------------------------------------------ arithmetic of Type
RECURSIVE GCD(_, _)
GCD(a, b) == IF b = 0 THEN a ELSE GCD(b, a % b)

Abs(a) == IF a < 0 THEN -a ELSE a

Norm(n, d) ==
  LET g == GCD(Abs(n), Abs(d))
      sg == IF d < 0 THEN -1 ELSE 1
  IN  <<(sg * n) \div g, (sg * d) \div g>>

R(n) == <<n, 1>>

RAdd(a, b) == Norm(a[1] * b[2] + b[1] * a[2], a[2] * b[2])

RSub(a, b) == Norm(a[1] * b[2] - b[1] * a[2], a[2] * b[2])

RMul(a, b) == Norm(a[1] * b[1], a[2] * b[2])

RDiv(a, b) == Norm(a[1] * b[2], a[2] * b[1])

RECURSIVE Pow2(_)
Pow2(k) == IF k = 0 THEN 1 ELSE 2 * Pow2(k - 1)

exp(k) == IF k >= 0 THEN <<Pow2(k), 1>> ELSE <<1, Pow2(-k)>>

NA_REAL == <<1954, 0>>
NaN == <<0, 0>>
Uninit == <<0, -1>>
Garbage == {R(0), R(7)}

\* a wrong sentinel: the ordinary NaN instead of R's NA
isNA_nan(x) == x = <<0, 0>>

isNA(x) == x[2] = 0 /\ x[1] = 1954

\* ------------------------------------------------------------ library densities (terms)
Vec2(a, b) == [k \in 0..1 |-> IF k = 0 THEN a ELSE b]

Vec4(a, b, c, d) == [k \in 0..3 |-> CASE k = 0 -> a [] k = 1 -> b [] k = 2 -> c [] OTHER -> d]

NoMatrix == [k \in {} |-> 0]

\* density::GMRF(Q)(x): the negative log-density of x under precision Q
GMRF(Qm, xv) == [f |-> "GMRF", sign |-> 1, Q |-> Qm, x |-> xv]

\* dpois(x, exp(log_mean), true)
dpois(x, log_mean) == [f |-> "dpois", sign |-> 1, Q |-> NoMatrix, x |-> Vec2(x, log_mean)]

d_poisson_lognormal(x, log_mean, log_sd, log_clustersize) ==
  IF x = R(0)
    THEN [f |-> "log_notencounterprob", sign |-> 1, Q |-> NoMatrix,
          x |-> Vec4(x, log_mean, log_sd, log_clustersize)]
    ELSE [f |-> "log_encounterprob+dlognorm", sign |-> 1, Q |-> NoMatrix,
          x |-> Vec4(x, log_mean, log_sd, log_clustersize)]

Neg(term) == [term EXCEPT !.sign = -(term.sign)]

\* v(0) + v(1) + ... + v(n-1), left to right
RECURSIVE SumTo(_, _)
SumTo(v, n) == IF n = 0 THEN <<>> ELSE SumTo(v, n - 1) \o v[n - 1]

\* ------------------------------------------------------------ state
VARIABLES
  Options_vec, n_i, n_x, n_t, n_p, x_s, c_i, t_i, X_xp, G0, G1, G2,
  alpha, phi, log_tau_E, log_tau_O, log_kappa, rho, theta_z,
  Epsilon_input, Omega_input,
  jnll, jnll_comp, kappa2, kappa4, Q,
  eta_x, Omega_x, Equil_x, log_chat_i, Epsilon_xt, jnll_i,
  t, i, pc, fault, n_factorize

inputs == <<Options_vec, n_i, n_x, n_t, n_p, x_s, c_i, t_i, X_xp, G0, G1, G2,
            alpha, phi, log_tau_E, log_tau_O, log_kappa, rho, theta_z,
            Epsilon_input, Omega_input>>

vars == <<inputs, jnll, jnll_comp, kappa2, kappa4, Q,
          eta_x, Omega_x, Equil_x, log_chat_i, Epsilon_xt, jnll_i,
          t, i, pc, fault, n_factorize>>

\* ------------------------------------------------------------ inputs of one evaluation
Identity(n) == [r \in 0..(n - 1) |-> [c \in 0..(n - 1) |-> IF r = c THEN R(1) ELSE R(0)]]

ZeroMatrix(n) == [r \in 0..(n - 1) |-> [c \in 0..(n - 1) |-> R(0)]]

\* a mass matrix, a stiffness matrix and a third symmetric matrix of a 1-d mesh
MeshG0(n) == [r \in 0..(n - 1) |-> [c \in 0..(n - 1) |-> IF r = c THEN R(r + 2) ELSE R(0)]]

MeshG1(n) == [r \in 0..(n - 1) |-> [c \in 0..(n - 1) |->
                IF r = c THEN R(2) ELSE IF Abs(r - c) = 1 THEN R(-1) ELSE R(0)]]

MeshG2(n) == [r \in 0..(n - 1) |-> [c \in 0..(n - 1) |->
                IF r = c THEN R(5) ELSE IF Abs(r - c) = 1 THEN R(-3) ELSE R(1)]]

BasisSets(n) ==
  { [G0 |-> Identity(n), G1 |-> ZeroMatrix(n), G2 |-> ZeroMatrix(n)],
    [G0 |-> MeshG0(n), G1 |-> MeshG1(n), G2 |-> MeshG2(n)],
    [G0 |-> MeshG0(n), G1 |-> ZeroMatrix(n), G2 |-> MeshG1(n)] }

LogKappas == {-1, 0, 1}

\* no covariates, no random effects, no density dependence
ZeroPars(nx, nt) ==
  [n_p |-> 0, X_xp |-> [x \in 0..(nx - 1) |-> [p \in {} |-> R(0)]],
   alpha |-> [p \in {} |-> R(0)], phi |-> R(3), rho |-> R(0),
   log_tau_E |-> 0, log_tau_O |-> 0,
   Omega_input |-> [x \in 0..(nx - 1) |-> R(0)],
   Epsilon_input |-> [x \in 0..(nx - 1) |-> [tt \in 0..(nt - 1) |-> R(0)]]]

\* one covariate; every site and every (site, time) cell carries its own value.
\* rho # 1: line 128 divides by 1 - rho.
FullPars(nx, nt, rh) ==
  [n_p |-> 1, X_xp |-> [x \in 0..(nx - 1) |-> [p \in 0..0 |-> R(x + 1)]],
   alpha |-> [p \in 0..0 |-> <<1, 2>>], phi |-> R(1), rho |-> rh,
   log_tau_E |-> 1, log_tau_O |-> -1,
   Omega_input |-> [x \in 0..(nx - 1) |-> R(3 * x + 1)],
   Epsilon_input |-> [x \in 0..(nx - 1) |-> [tt \in 0..(nt - 1) |-> R(2 * (x + nx * tt) + 2)]]]

Rhos == {<<1, 2>>, R(-1)}

DefaultBasis(nx) ==
  [G0 |-> Identity(nx), G1 |-> ZeroMatrix(nx), G2 |-> ZeroMatrix(nx),
   log_kappa |-> 0, theta_z |-> Vec2(R(0), R(1))]

\* counts 0, 1, 2, ... with the observations of M missing (NA)
Counts(n, M) == [k \in 0..(n - 1) |-> IF k \in M THEN NA_REAL ELSE R(k)]

\* none missing, one missing, all missing
FewMissing(n) == {{}} \cup {{k} : k \in 0..(n - 1)} \cup {0..(n - 1)}

\* every order of in-range observations
ValidObs(nx, nt, n) ==
  { [n_i |-> n, x_s |-> xs, t_i |-> ts, c_i |-> Counts(n, M)]
    : xs \in [0..(n - 1) -> 0..(nx - 1)], ts \in [0..(n - 1) -> 0..(nt - 1)],
      M \in FewMissing(n) }

\* observations whose indices may lie outside [0, n_x) and [0, n_t)
AnyObs(nx, nt, n) ==
  { [n_i |-> n, x_s |-> xs, t_i |-> ts, c_i |-> cs]
    : xs \in [0..(n - 1) -> (-1)..nx], ts \in [0..(n - 1) -> (-1)..nt],
      cs \in {Counts(n, M) : M \in SUBSET (0..(n - 1))} \cup {[k \in 0..(n - 1) |-> NaN]} }

Dims(nx, nt) == [n_x |-> nx, n_t |-> nt]

Flag(op) == [Options_vec |-> [k \in 0..0 |-> op]]

\* the State Propagator's cases: every observation order on 2 sites and 3 time steps
RecursionInputs ==
  { Dims(2, 3) @@ Flag(0) @@ ob @@ pr @@ DefaultBasis(2)
    : ob \in UNION { ValidObs(2, 3, n) : n \in 0..MaxNi },
      pr \in {ZeroPars(2, 3)} \cup {FullPars(2, 3, rh) : rh \in Rhos} }

\* the Precision Builder's cases: 1 and 2 mesh vertices, one time step
PrecisionInputs ==
  UNION { { Dims(nx, 1) @@ Flag(0) @@ ob @@ pr @@ bs
            @@ [log_kappa |-> lk, theta_z |-> Vec2(R(0), R(1))]
            : ob \in ValidObs(nx, 1, 1),
              pr \in {ZeroPars(nx, 1), FullPars(nx, 1, <<1, 2>>)},
              bs \in BasisSets(nx), lk \in LogKappas }
          : nx \in {1, 2} }

\* the boundary's cases: any model-selection flag, any index; 1 site, 1 time step,
\* 1 or 2 observations
BoundaryInputs ==
  { Dims(1, 1) @@ Flag(op) @@ ob @@ FullPars(1, 1, <<1, 2>>) @@ DefaultBasis(1)
    : op \in {0, 1, 2}, ob \in UNION { AnyObs(1, 1, n) : n \in {1, 2} } }

Inputs == RecursionInputs \cup PrecisionInputs \cup BoundaryInputs

NoVector == [k \in {} |-> Uninit]

Init ==
  /\ \E d \in Inputs :
       /\ Options_vec = d.Options_vec
       /\ n_i = d.n_i /\ n_x = d.n_x /\ n_t = d.n_t /\ n_p = d.n_p
       /\ x_s = d.x_s /\ c_i = d.c_i /\ t_i = d.t_i /\ X_xp = d.X_xp
       /\ G0 = d.G0 /\ G1 = d.G1 /\ G2 = d.G2
       /\ alpha = d.alpha /\ phi = d.phi
       /\ log_tau_E = d.log_tau_E /\ log_tau_O = d.log_tau_O
       /\ log_kappa = d.log_kappa /\ rho = d.rho /\ theta_z = d.theta_z
       /\ Epsilon_input = d.Epsilon_input /\ Omega_input = d.Omega_input
  /\ jnll = <<>>
  /\ jnll_comp = NoVector
  /\ kappa2 = Uninit /\ kappa4 = Uninit /\ Q = NoMatrix
  /\ eta_x = NoVector /\ Omega_x = NoVector /\ Equil_x = NoVector
  /\ log_chat_i = NoVector /\ Epsilon_xt = NoMatrix /\ jnll_i = NoVector
  /\ t = 0 /\ i = 0
  /\ pc = "spatial"
  /\ fault = "none"
  /\ n_factorize = 0

\* ------------------------------------------------------------ Precision Builder
\* the factor 2 of the G1 term dropped
PrecisionEntry_noTwo(k2, k4, g0, g1, g2) ==
  RAdd(RAdd(RMul(k4, g0), RMul(k2, g1)), g2)

\* one entry of kappa4*G0 + Type(2.0)*kappa2*G1 + G2
PrecisionEntry(k2, k4, g0, g1, g2) ==
  RAdd(RAdd(RMul(k4, g0), RMul(RMul(R(2), k2), g1)), g2)

\* jnll, jnll_comp, the spatial parameters, Q and the derived vectors' storage
SpatialParameters ==
  /\ pc = "spatial"
  /\ jnll' = <<>>
  /\ jnll_comp' = [k \in 0..2 |-> <<>>]
  /\ kappa2' = exp(2 * log_kappa)
  /\ kappa4' = RMul(exp(2 * log_kappa), exp(2 * log_kappa))
  /\ Q' = [r \in 0..(n_x - 1) |-> [c \in 0..(n_x - 1) |->
             PrecisionEntry(kappa2', kappa4', G0[r][c], G1[r][c], G2[r][c])]]
  /\ eta_x' = [x \in 0..(n_x - 1) |-> Uninit]
  /\ Omega_x' = [x \in 0..(n_x - 1) |-> Uninit]
  /\ Equil_x' = [x \in 0..(n_x - 1) |-> Uninit]
  /\ log_chat_i' = [k \in 0..(n_i - 1) |-> Uninit]
  /\ Epsilon_xt' = [x \in 0..(n_x - 1) |-> [tt \in 0..(n_t - 1) |-> Uninit]]
  /\ pc' = "gmrf_omega"
  /\ UNCHANGED <<inputs, jnll_i, t, i, fault, n_factorize>>

\* ------------------------------------------------------------ GMRF densities
\* Epsilon_input.col(tt)
Col(m, tt) == [x \in 0..(n_x - 1) |-> m[x][tt]]

\* jnll_comp(0) += GMRF(Q)(Omega_input); the GMRF(Q) object factorizes Q
GMRF_Omega ==
  /\ pc = "gmrf_omega"
  /\ jnll_comp' = [jnll_comp EXCEPT ![0] = @ \o <<GMRF(Q, Omega_input)>>]
  /\ n_factorize' = n_factorize + 1
  /\ t' = 0
  /\ pc' = "gmrf_epsilon"
  /\ UNCHANGED <<inputs, jnll, kappa2, kappa4, Q, eta_x, Omega_x, Equil_x,
                 log_chat_i, Epsilon_xt, jnll_i, i, fault>>

\* the time slice the loop's iteration tt adds to jnll_comp(1)
SliceOf(tt) == tt

\* one iteration of for(t = 0; t < n_t; t++): a new GMRF(Q) object per slice
GMRF_Epsilon ==
  /\ pc = "gmrf_epsilon"
  /\ t < n_t
  /\ jnll_comp' = [jnll_comp EXCEPT ![1] = @ \o <<GMRF(Q, Col(Epsilon_input, SliceOf(t)))>>]
  /\ n_factorize' = n_factorize + 1
  /\ t' = t + 1
  /\ UNCHANGED <<inputs, jnll, kappa2, kappa4, Q, eta_x, Omega_x, Equil_x,
                 log_chat_i, Epsilon_xt, jnll_i, i, pc, fault>>

\* ------------------------------------------------------------ Field Scaler
RECURSIVE Dot(_, _, _)
Dot(row, a, n) == IF n = 0 THEN R(0) ELSE RAdd(Dot(row, a, n - 1), RMul(row[n - 1], a[n - 1]))

Scale(raw, log_tau) == RDiv(raw, exp(log_tau))

\* the sign of rho flipped
Equil_plus(eta, omega, rh) == RDiv(RAdd(eta, omega), RAdd(R(1), rh))

Equil(eta, omega, rh) == RDiv(RAdd(eta, omega), RSub(R(1), rh))

\* eta_x, Omega_x, Equil_x, Epsilon_xt; then jnll_i is allocated and zeroed
TransformGMRFs ==
  /\ pc = "gmrf_epsilon"
  /\ t >= n_t
  /\ eta_x' = [x \in 0..(n_x - 1) |-> Dot(X_xp[x], alpha, n_p)]
  /\ Omega_x' = [x \in 0..(n_x - 1) |-> Scale(Omega_input[x], log_tau_O)]
  /\ Equil_x' = [x \in 0..(n_x - 1) |-> Equil(eta_x'[x], Omega_x'[x], rho)]
  /\ Epsilon_xt' = [x \in 0..(n_x - 1) |-> [tt \in 0..(n_t - 1) |->
                      Scale(Epsilon_input[x][tt], log_tau_E)]]
  /\ jnll_i' = [k \in 0..(n_i - 1) |-> <<>>]
  /\ i' = 0
  /\ pc' = "obs"
  /\ UNCHANGED <<inputs, jnll, jnll_comp, kappa2, kappa4, Q, log_chat_i, t, fault,
                 n_factorize>>

\* ------------------------------------------------------------ State Propagator
\* log_chat_i(i) for t_i(i) == 0
InitialState(ph, equil, eps) == RAdd(RAdd(ph, equil), eps)

\* the autocorrelation left out of the recursion
GompertzStep_noRho(rh, prev, eta, omega, eps) ==
  RAdd(RAdd(prev, RAdd(eta, omega)), eps)

\* log_chat_i(i) for t_i(i) > 0
GompertzStep(rh, prev, eta, omega, eps) ==
  RAdd(RAdd(RMul(rh, prev), RAdd(eta, omega)), eps)

\* the previous time step of a time-major layout
PrevIndex_stride(k) == k - n_x

\* the element of log_chat_i the recursion reads for observation k
PrevIndex(k) == k - 1

SiteOK(s) == s \in 0..(n_x - 1)

CellOK(s, tt) == s \in 0..(n_x - 1) /\ tt \in 0..(n_t - 1)

\* what a read of v(k) can return
ReadCell(v, k) == IF k \in DOMAIN v /\ v[k] # Uninit THEN {v[k]} ELSE Garbage

ReadCell2(m, s, tt) ==
  IF s \in DOMAIN m /\ tt \in DOMAIN m[s] /\ m[s][tt] # Uninit THEN {m[s][tt]} ELSE Garbage

\* the body of for(i = 0; i < n_i; i++) reads outside an array
ReadsOutside(k) ==
  \/ t_i[k] = 0 /\ ~CellOK(x_s[k], 0)
  \/ t_i[k] > 0 /\ (PrevIndex(k) \notin 0..(n_i - 1) \/ ~CellOK(x_s[k], t_i[k]))

\* the observation likelihood of observation k is evaluated
LikelihoodEvaluated(k) == ~isNA(c_i[k]) /\ Options_vec[0] \in {0, 1}

\* the body reads a cell of log_chat_i that was never assigned
ReadsUnassigned(k) ==
  \/ t_i[k] > 0 /\ PrevIndex(k) \in 0..(n_i - 1) /\ log_chat_i[PrevIndex(k)] = Uninit
  \/ t_i[k] < 0 /\ LikelihoodEvaluated(k)

\* jnll_i(k) after the likelihood block, lc being the value read from log_chat_i(k)
Likelihood(k, lc) ==
  IF isNA(c_i[k]) THEN jnll_i[k]
  ELSE IF Options_vec[0] = 0 THEN jnll_i[k] \o <<Neg(dpois(c_i[k], lc))>>
  ELSE IF Options_vec[0] = 1
    THEN jnll_i[k] \o <<Neg(d_poisson_lognormal(c_i[k], lc, theta_z[0], theta_z[1]))>>
  ELSE jnll_i[k]

\* one iteration of for(i = 0; i < n_i; i++)
Observation ==
  /\ pc = "obs"
  /\ i < n_i
  /\ \/ \* a bounds-checked build stops at the first read outside an array
        /\ ReadsOutside(i)
        /\ pc' = "error"
        /\ fault' = IF fault = "none" THEN "out_of_bounds" ELSE fault
        /\ UNCHANGED <<log_chat_i, jnll_i, i>>
     \/ \E prev \in IF t_i[i] > 0 THEN ReadCell(log_chat_i, PrevIndex(i)) ELSE {R(0)},
           equil \in IF t_i[i] = 0 THEN ReadCell(Equil_x, x_s[i]) ELSE {R(0)},
           eta \in IF t_i[i] > 0 THEN ReadCell(eta_x, x_s[i]) ELSE {R(0)},
           omega \in IF t_i[i] > 0 THEN ReadCell(Omega_x, x_s[i]) ELSE {R(0)},
           eps \in IF t_i[i] >= 0 THEN ReadCell2(Epsilon_xt, x_s[i], t_i[i]) ELSE {R(0)} :
          LET lc == IF t_i[i] = 0 THEN InitialState(phi, equil, eps)
                    ELSE IF t_i[i] > 0 THEN GompertzStep(rho, prev, eta, omega, eps)
                    ELSE log_chat_i[i]
          IN  /\ log_chat_i' = [log_chat_i EXCEPT ![i] = lc]
              /\ \E used \in IF lc = Uninit /\ LikelihoodEvaluated(i) THEN Garbage ELSE {lc} :
                   jnll_i' = [jnll_i EXCEPT ![i] = Likelihood(i, used)]
              /\ fault' = IF fault # "none" THEN fault
                          ELSE IF ReadsOutside(i) THEN "out_of_bounds"
                          ELSE IF ReadsUnassigned(i) THEN "unassigned"
                          ELSE "none"
              /\ i' = i + 1
              /\ pc' = pc
  /\ UNCHANGED <<inputs, jnll, jnll_comp, kappa2, kappa4, Q, eta_x, Omega_x, Equil_x,
                 Epsilon_xt, t, n_factorize>>

\* ------------------------------------------------------------ Objective Aggregator
\* the alternative of line 149: the carrying-capacity density left out
Total_noOmega(comp) == comp[1] \o comp[2]

\* jnll_comp.sum()
Total(comp) == SumTo(comp, 3)

\* jnll_comp(2) = jnll_i.sum(); jnll = jnll_comp.sum(); REPORTs; return jnll
Aggregate ==
  /\ pc = "obs"
  /\ i >= n_i
  /\ jnll_comp' = [jnll_comp EXCEPT ![2] = SumTo(jnll_i, n_i)]
  /\ jnll' = Total(jnll_comp')
  /\ pc' = "done"
  /\ UNCHANGED <<inputs, kappa2, kappa4, Q, eta_x, Omega_x, Equil_x, log_chat_i,
                 Epsilon_xt, jnll_i, t, i, fault, n_factorize>>

Next ==
  \/ SpatialParameters
  \/ GMRF_Omega
  \/ GMRF_Epsilon
  \/ TransformGMRFs
  \/ Observation
  \/ Aggregate

Spec == Init /\ [][Next]_vars

\* ------------------------------------------------------------ site-keyed recursion (spec.md, section 9)
\* the log-expected-count of observation k, read from the per-site table
SiteKeyedValue(k, table) ==
  IF t_i[k] = 0
    THEN InitialState(phi, Equil_x[x_s[k]], Epsilon_xt[x_s[k]][0])
    ELSE GompertzStep(rho, table[x_s[k]], eta_x[x_s[k]], Omega_x[x_s[k]],
                      Epsilon_xt[x_s[k]][t_i[k]])

\* the per-site "last log-expected-count" table before observation k
RECURSIVE LastBySite(_)
LastBySite(k) ==
  IF k = 0 THEN [x \in 0..(n_x - 1) |-> Uninit]
  ELSE [LastBySite(k - 1) EXCEPT ![x_s[k - 1]] = SiteKeyedValue(k - 1, LastBySite(k - 1))]

SiteKeyed(k) == SiteKeyedValue(k, LastBySite(k))

\* ------------------------------------------------------------ the claims
Obs == 0..(n_i - 1)

\* observation k has been through the loop body
Processed(k) == pc \in {"obs", "done", "error"} /\ k \in Obs /\ k < i

AllIndicesValid == \A k \in Obs : CellOK(x_s[k], t_i[k])

DriftOf(k) == RAdd(eta_x[x_s[k]], Omega_x[x_s[k]])

\* C1: a processed observation at time 0 has log_chat_i = phi + Equil_x(site) +
\* Epsilon_xt(site, 0), with Equil_x(site) = (eta_x(site) + Omega_x(site)) / (1 - rho);
\* one at time > 0 has log_chat_i = rho * log_chat_i(i-1) + (eta_x(site) + Omega_x(site))
\* + Epsilon_xt(site, time); with one site, one time step, no covariates, rho = 0 and
\* zero random effects log_chat_i(0) is phi.
C1_Recursion ==
  /\ \A k \in Obs :
       Processed(k) /\ CellOK(x_s[k], t_i[k]) =>
         /\ Equil_x[x_s[k]] = RDiv(DriftOf(k), RSub(R(1), rho))
         /\ t_i[k] = 0 =>
              log_chat_i[k] = RAdd(RAdd(phi, Equil_x[x_s[k]]), Epsilon_xt[x_s[k]][0])
         /\ t_i[k] > 0 /\ k >= 1 /\ log_chat_i[k - 1] # Uninit =>
              log_chat_i[k] = RAdd(RAdd(RMul(rho, log_chat_i[k - 1]), DriftOf(k)),
                                   Epsilon_xt[x_s[k]][t_i[k]])
  /\ ( /\ Processed(0) /\ n_x = 1 /\ n_t = 1 /\ n_p = 0 /\ rho = R(0)
       /\ x_s[0] = 0 /\ t_i[0] = 0
       /\ Omega_input[0] = R(0) /\ Epsilon_input[0][0] = R(0) )
     => log_chat_i[0] = phi

C1_Witness ==
  /\ pc = "done" /\ n_i >= 2 /\ rho = <<1, 2>>
  /\ t_i[0] = 0 /\ t_i[1] = 1 /\ x_s[1] = 1
  /\ log_chat_i[1] # log_chat_i[0]

\* the special case of C1 is reached too
C1_WitnessSingle ==
  /\ pc = "done" /\ n_x = 1 /\ n_t = 1 /\ n_p = 0 /\ rho = R(0) /\ n_i = 1
  /\ Omega_input[0] = R(0) /\ Epsilon_input[0][0] = R(0) /\ log_chat_i[0] = R(3)

\* the value lines 140-141 assign to log_chat_i(k), whatever c_i(k) is
Assigned(k) ==
  IF t_i[k] = 0
    THEN InitialState(phi, Equil_x[x_s[k]], Epsilon_xt[x_s[k]][0])
    ELSE GompertzStep(rho, log_chat_i[k - 1], eta_x[x_s[k]], Omega_x[x_s[k]],
                      Epsilon_xt[x_s[k]][t_i[k]])

\* the terms of jnll_i(0..n-1) of the observations whose count is not NA
RECURSIVE SumObserved(_)
SumObserved(n) ==
  IF n = 0 THEN <<>>
  ELSE SumObserved(n - 1) \o (IF c_i[n - 1] = NA_REAL THEN <<>> ELSE jnll_i[n - 1])

\* C2: at the end of the evaluation an observation whose count is the missing sentinel
\* has jnll_i = 0 and adds nothing to jnll_comp(2), and its log_chat_i is the value the
\* recursion assigns, as for a non-missing count.
C2_Missing ==
  pc = "done" =>
    /\ \A k \in Obs :
         c_i[k] = NA_REAL =>
           /\ jnll_i[k] = <<>>
           /\ ( CellOK(x_s[k], t_i[k])
                /\ (t_i[k] > 0 => k >= 1 /\ log_chat_i[k - 1] # Uninit) )
              => log_chat_i[k] # Uninit /\ log_chat_i[k] = Assigned(k)
    /\ jnll_comp[2] = SumObserved(n_i)

C2_Witness ==
  /\ pc = "done" /\ n_i = 3
  /\ c_i[1] = NA_REAL /\ c_i[0] # NA_REAL /\ c_i[2] # NA_REAL
  /\ t_i[1] = 1 /\ t_i[0] = 0
  /\ jnll_i[1] = <<>> /\ jnll_i[0] # <<>> /\ log_chat_i[1] # Uninit

\* C3: with a model-selection flag other than 0 and 1 the evaluation never completes
\* normally with a non-missing observation contributing nothing.
C3_UnknownFlagFails ==
  ~ ( /\ pc = "done"
      /\ Options_vec[0] \notin {0, 1}
      /\ AllIndicesValid
      /\ \E k \in Obs : c_i[k][2] = 1 /\ jnll_i[k] = <<>> )

\* C4: with a site or time index out of range, no GMRF density is added to jnll_comp
\* and no log_chat_i or jnll_i is computed.
C4_NothingBeforeFailure ==
  ~AllIndicesValid =>
    /\ \A k \in DOMAIN jnll_comp : jnll_comp[k] = <<>>
    /\ \A k \in DOMAIN log_chat_i : log_chat_i[k] = Uninit
    /\ \A k \in DOMAIN jnll_i : jnll_i[k] = <<>>

\* C5: the returned jnll is jnll_comp(0) + jnll_comp(1) + jnll_comp(2); jnll_comp(0) is
\* the one GMRF density of Omega_input, jnll_comp(1) the GMRF densities of the columns
\* 0..n_t-1 of Epsilon_input, each once, jnll_comp(2) the sum of jnll_i.
C5_Total ==
  pc = "done" =>
    /\ jnll = (jnll_comp[0] \o jnll_comp[1]) \o jnll_comp[2]
    /\ jnll_comp[0] = <<[f |-> "GMRF", sign |-> 1, Q |-> Q, x |-> Omega_input]>>
    /\ jnll_comp[1] = [k \in 1..n_t |->
                         [f |-> "GMRF", sign |-> 1, Q |-> Q,
                          x |-> [x \in 0..(n_x - 1) |-> Epsilon_input[x][k - 1]]]]
    /\ jnll_comp[2] = SumTo(jnll_i, n_i)

C5_Witness ==
  /\ pc = "done" /\ n_t = 3 /\ n_i = 3 /\ Len(jnll_comp[1]) = 3 /\ Len(jnll_comp[2]) = 3
  /\ Len(jnll) = 7

\* C6: Q is factorized exactly once per evaluation.
C6_OneFactorization == pc = "done" => n_factorize = 1

\* the kappa of the claim, and its powers
Kappa == exp(log_kappa)

Kappa2 == RMul(Kappa, Kappa)

Kappa4 == RMul(RMul(RMul(Kappa, Kappa), Kappa), Kappa)

\* C7: every entry of Q is kappa^4 * G0 + 2 * kappa^2 * G1 + G2 at that entry; for
\* G0 = I, G1 = 0, G2 = 0, Q is kappa^4 * I.
C7_Precision ==
  pc # "spatial" =>
    /\ \A r \in 0..(n_x - 1), c \in 0..(n_x - 1) :
         Q[r][c] = RAdd(RAdd(RMul(Kappa4, G0[r][c]), RMul(RMul(R(2), Kappa2), G1[r][c])),
                        G2[r][c])
    /\ ( G0 = Identity(n_x) /\ G1 = ZeroMatrix(n_x) /\ G2 = ZeroMatrix(n_x) )
       => \A r \in 0..(n_x - 1), c \in 0..(n_x - 1) :
            Q[r][c] = IF r = c THEN Kappa4 ELSE R(0)

C7_Witness ==
  /\ pc = "done" /\ n_x = 2 /\ log_kappa = 1
  /\ G1[0][1] = R(-1) /\ Q[0][1] = R(-11) /\ Q[0][0] = R(53)

\* C8: with all indices in range, no cell is read before it is written and no array is
\* read outside its bounds.
C8_NoBadRead == AllIndicesValid => fault = "none"

\* each observation at time > 0 directly follows its site's observation at time - 1
OrderedInput ==
  \A k \in Obs :
    t_i[k] > 0 => k >= 1 /\ x_s[k - 1] = x_s[k] /\ t_i[k - 1] = t_i[k] - 1

\* C9: for an observation sequence that satisfies the ordering invariant, the positional
\* recursion gives every observation the log_chat_i of the site-keyed recursion.
C9_SiteKeyed ==
  pc = "done" /\ AllIndicesValid /\ OrderedInput =>
    \A k \in Obs : log_chat_i[k] = SiteKeyed(k)

C9_Witness ==
  /\ pc = "done" /\ OrderedInput /\ n_i = 3 /\ rho = <<1, 2>>
  /\ x_s[0] = 0 /\ t_i[0] = 0
  /\ x_s[1] = 1 /\ t_i[1] = 0
  /\ x_s[2] = 1 /\ t_i[2] = 1
  /\ log_chat_i[2] = SiteKeyed(2)

\* A = k, M = k + 1 (missing), B = k + 2: one site, consecutive time steps
Triple(k) ==
  /\ k + 2 \in Obs
  /\ x_s[k + 1] = x_s[k] /\ x_s[k + 2] = x_s[k]
  /\ t_i[k + 1] = t_i[k] + 1 /\ t_i[k + 2] = t_i[k] + 2
  /\ c_i[k + 1] = NA_REAL

\* B's log_chat_i in the sequence without M: B follows A, with B's process error
Relinked(k) ==
  RAdd(RAdd(RMul(rho, log_chat_i[k]), DriftOf(k + 2)),
       Epsilon_xt[x_s[k + 2]][t_i[k + 2]])

\* C10 as stated: B's log_chat_i equals the one B has with M removed and B re-linked
\* to A.
C10_Unchanged ==
  pc = "done" /\ AllIndicesValid /\ fault = "none" =>
    \A k \in Obs : Triple(k) => log_chat_i[k + 2] = Relinked(k)

\* C10 as amended: B's log_chat_i differs from the one of the sequence without M by
\* rho * (log_chat_i(M) - log_chat_i(A)), and equals it exactly when that is 0.
C10_Difference ==
  pc = "done" /\ AllIndicesValid /\ fault = "none" =>
    \A k \in Obs :
      Triple(k) =>
        /\ RSub(log_chat_i[k + 2], Relinked(k))
             = RMul(rho, RSub(log_chat_i[k + 1], log_chat_i[k]))
        /\ (log_chat_i[k + 2] = Relinked(k))
             <=> (RMul(rho, log_chat_i[k + 1]) = RMul(rho, log_chat_i[k]))

C10_Witness ==
  /\ pc = "done" /\ fault = "none" /\ n_i = 3 /\ Triple(0) /\ rho = <<1, 2>>
  /\ log_chat_i[1] # log_chat_i[0]
  /\ log_chat_i[2] # Relinked(0)

====
